---- MODULE Spec2Model ----
(***************************************************************************)
(* Model of bin/infer.py: inference of an INSDC RNA type for an Rfam       *)
(* family by a chain of strategies (manual assignment, name patterns,      *)
(* SO-term mapping, Rfam rna-type mapping, SO-term graph search).          *)
(***************************************************************************)
EXTENDS Integers, Sequences, FiniteSets, TLC

VARIABLES
    hardcoded,          \* ManualInference.assignments: family id -> raw result
    informative_names,  \* FromName.informative_names: ordered <<pattern, rna_type>>
    mapping,            \* FromRnaType.mapping: rna_type key -> raw label
    assignments,        \* FromSoTerms.mapping and the 'isndc' node attribute
    graph,              \* SoTermSearch.graph: [nodes, edges]
    max_depth,          \* SoTermSearch.max_depth
    family,             \* the RfamFamily being inferred
    pc,                 \* position inside the operation being run
    result,             \* the local `result` / the value returned
    raised,             \* name of the exception that left the operation, or "none"
    root,               \* argument of SoTermSearch.search
    found,              \* value returned by SoTermSearch.search
    examined,           \* terms dfs was called on during the search
    depth,              \* loop variable of SoTermSearch.search
    stack,              \* call stack of SoTermSearch.dfs
    raw,                \* the value handed to InferredRfamType.build
    consulted           \* the strategies called so far, in call order

vars == <<hardcoded, informative_names, mapping, assignments, graph, max_depth,
          family, pc, result, raised, root, found, examined, depth, stack, raw,
          consulted>>

-----------------------------------------------------------------------------
(* Bounds of the model *)

MaxDepthBound == 3

-----------------------------------------------------------------------------
(* INSDCTypes and the raw values the strategies hand to build *)

INSDCTypes ==
    {"RNase_MRP_RNA", "RNase_P_RNA", "SRP_RNA", "Y_RNA", "antisense_RNA",
     "autocatalytically_spliced_intron", "guide_RNA", "hammerhead_ribozyme",
     "lncRNA", "miRNA", "ncRNA", "misc_RNA", "other", "precursor_RNA", "piRNA",
     "rasiRNA", "ribozyme", "scRNA", "siRNA", "snRNA", "snoRNA",
     "telomerase_RNA", "vault_RNA", "rRNA", "tRNA", "tmRNA"}

\* Python's None inside a collection of labels
NoneLabel == "<None>"

\* The shapes of `result` that build distinguishes with isinstance
RawNone == [kind |-> "none", val |-> {}]
RawStr(s) == [kind |-> "str", val |-> {s}]
RawSet(S) == [kind |-> "set", val |-> S]
RawNumber == [kind |-> "number", val |-> {}]

\* dict.get(key, None)
Get(table, key) == IF key \in DOMAIN table THEN table[key] ELSE RawNone

\* dict.get(key, None) for a table of plain labels
GetLabel(table, key) == IF key \in DOMAIN table THEN table[key] ELSE NoneLabel

-----------------------------------------------------------------------------
(* InferredRfamType *)

Returned(name, types) == [ok |-> TRUE, method |-> name, rna_types |-> types, error |-> "none"]
Raised(name, err) == [ok |-> FALSE, method |-> name, rna_types |-> {}, error |-> err]

\* lines 108-109: the synonym rewrite
Rename(rna_type) == IF rna_type = "antisense" THEN "antisense_RNA" ELSE rna_type

\* line 112: getattr(INSDCTypes, rna_type) raises AttributeError for a name
\* that is no member of the enumeration
HasAttr(rna_type) == rna_type \in INSDCTypes

\* InferredRfamType.build
build(name, value) ==
    IF value.kind \notin {"str", "set", "none"}
    THEN Raised(name, "ValueError")
    ELSE LET rna_types == value.val
             kept == {Rename(t) : t \in rna_types} \ {NoneLabel}
         IN IF \E t \in kept : ~HasAttr(t)
            THEN Raised(name, "AttributeError")
            ELSE Returned(name, kept)

\* InferredRfamType.remove
remove(res, value) ==
    IF value \notin res.rna_types
    THEN res
    ELSE [res EXCEPT !.rna_types = {r \in res.rna_types : r # value}]

\* InferredRfamType.__bool__
Truthy(res) == res.rna_types # {}

-----------------------------------------------------------------------------
(* SoTermSearch *)

\* graph.out_edges_iter(term): the children of term
Children(term) == {e[2] : e \in {x \in graph.edges : x[1] = term}}

\* 'isndc' in node
HasIsndc(term) == term \in DOMAIN assignments

\* term not in self.graph
NotInGraph(term) == term \notin graph.nodes

\* a recursive call that passes the depth on unchanged
ChildDepthSame(d) == d

\* the depth passed to the recursive call of dfs
ChildDepth(d) == d - 1

RECURSIVE dfs(_, _)
dfs(term, d) ==
    IF NotInGraph(term) THEN {}
    ELSE IF d = 0 /\ HasIsndc(term) THEN {assignments[term]}
    ELSE IF d # 0 THEN UNION {dfs(child, ChildDepth(d)) : child \in Children(term)}
    ELSE {}

\* the terms dfs(term, d) is called on, itself included
RECURSIVE dfsCalls(_, _)
dfsCalls(term, d) ==
    IF NotInGraph(term) THEN {term}
    ELSE IF d = 0 /\ HasIsndc(term) THEN {term}
    ELSE IF d # 0
         THEN {term} \cup UNION {dfsCalls(child, ChildDepth(d)) : child \in Children(term)}
    ELSE {term}

\* range(0, self.max_depth): the first depth that is not tried
RangeStop == max_depth

\* SoTermSearch.search, from depth d of the loop on
RECURSIVE searchFrom(_, _)
searchFrom(term, d) ==
    IF d >= RangeStop THEN {}
    ELSE LET here == dfs(term, d)
         IN IF here # {} THEN here ELSE searchFrom(term, d + 1)

search(term) == searchFrom(term, 0)

\* the terms examined by search(term)
RECURSIVE searchCallsFrom(_, _)
searchCallsFrom(term, d) ==
    IF d >= RangeStop THEN {}
    ELSE dfsCalls(term, d) \cup
         (IF dfs(term, d) # {} THEN {} ELSE searchCallsFrom(term, d + 1))

\* a loop that gives up on a record with a broken cross-reference
SearchAllStrict(so_terms) ==
    IF \E t \in so_terms : NotInGraph(t) THEN {} ELSE UNION {search(t) : t \in so_terms}

\* the union built by the loop of SoTermSearch.__call__
SearchAll(so_terms) == UNION {search(t) : t \in so_terms}

\* SoTermSearch.__call__
so_term_search(fam) == build("so-search", RawSet(SearchAll(fam.so_terms)))

-----------------------------------------------------------------------------
(* The strategies *)

\* ManualInference.__call__
from_manual(fam) == build("manual", Get(hardcoded, fam.id))

\* re.search(pattern, name, re.IGNORECASE) on the patterns and names drawn below
re_search(pattern, name) ==
    <<pattern, name>> \in {<<"ribosomal", "5S ribosomal RNA">>,
                           <<"rna", "5S ribosomal RNA">>,
                           <<"rna", "mir-10 microRNA precursor family">>,
                           <<"^mir", "mir-10 microRNA precursor family">>}

\* FromName.__call__: the loop over informative_names.items(), from item i on
RECURSIVE FromNameFrom(_, _)
FromNameFrom(fam, i) ==
    IF i > Len(informative_names) THEN build("name", RawNone)
    ELSE IF re_search(informative_names[i].pattern, fam.name)
         THEN build("name", informative_names[i].rna_type)
         ELSE FromNameFrom(fam, i + 1)

from_name(fam) == FromNameFrom(fam, 1)

\* FromRnaType.__call__
from_rna_type(fam) == build("rna-type", Get(mapping, fam.rna_type))

\* FromSoTerms.__call__
from_so_terms(fam) ==
    build("so-term", RawSet({GetLabel(assignments, so) : so \in fam.so_terms}))

-----------------------------------------------------------------------------
(* WithFallBacks *)

\* WithFallBacks.name
FallbacksName == "fallbacks"

\* the cleanup with the two removals in the other order
simplifyOtherFirst(res) ==
    IF ~Truthy(res) THEN res
    ELSE LET r1 == IF Cardinality(res.rna_types) > 1 /\ "other" \in res.rna_types
                   THEN remove(res, "other") ELSE res
             r2 == IF Cardinality(r1.rna_types) > 1 /\ "misc_RNA" \in r1.rna_types
                   THEN remove(r1, "misc_RNA") ELSE r1
         IN r2

\* WithFallBacks.simplify
simplify(res) ==
    IF ~Truthy(res) THEN res
    ELSE LET r1 == IF Cardinality(res.rna_types) > 1 /\ "misc_RNA" \in res.rna_types
                   THEN remove(res, "misc_RNA") ELSE res
             r2 == IF Cardinality(r1.rna_types) > 1 /\ "other" \in r1.rna_types
                   THEN remove(r1, "other") ELSE r1
         IN r2

\* the chain with the rna-type mapping asked before the SO-term mapping
OrElseRnaTypeFirst(strategy) ==
    CASE strategy = "manual" -> "name"
      [] strategy = "name" -> "rna-type"
      [] strategy = "rna-type" -> "so-term"
      [] strategy = "so-term" -> "so-search"

\* lines 329-334: the operand of the `or` chain evaluated after a strategy
\* that returned an empty result
OrElse(strategy) ==
    CASE strategy = "manual" -> "name"
      [] strategy = "name" -> "so-term"
      [] strategy = "so-term" -> "rna-type"
      [] strategy = "rna-type" -> "so-search"

\* line 336: possible and possible.rna_types != {INSDCTypes.other}
AcceptPossible(possible) == Truthy(possible) /\ possible.rna_types # {"other"}

\* the call one operand of the chain makes
Apply(strategy, fam) ==
    CASE strategy = "manual" -> from_manual(fam)
      [] strategy = "name" -> from_name(fam)
      [] strategy = "so-term" -> from_so_terms(fam)
      [] strategy = "rna-type" -> from_rna_type(fam)
      [] strategy = "so-search" -> so_term_search(fam)

-----------------------------------------------------------------------------
(* The ontology and the records the model draws from *)

Terms == {"SO:1", "SO:2", "SO:3"}
MissingTerm == "SO:9"

EdgeCandidates ==
    {<<"SO:1", "SO:1">>, <<"SO:1", "SO:2">>, <<"SO:1", "SO:3">>,
     <<"SO:2", "SO:1">>, <<"SO:2", "SO:3">>, <<"SO:3", "SO:3">>}

Graphs == {[nodes |-> Terms, edges |-> E] : E \in SUBSET EdgeCandidates}

SearchLabels == {"tRNA", "antisense", "bogus"}

PartialFns(D, R) == UNION {[S -> R] : S \in SUBSET D}

TermSets == {S \in SUBSET (Terms \cup {MissingTerm}) : Cardinality(S) <= 2}

NoFamily == [id |-> "", name |-> "", so_terms |-> {}, rna_type |-> <<>>]
NoResult == Returned("", {})

-----------------------------------------------------------------------------
(* Specification of the ontology search alone *)

InitSearch ==
    /\ hardcoded = <<>>
    /\ informative_names = <<>>
    /\ mapping = <<>>
    /\ graph \in Graphs
    /\ assignments \in PartialFns(Terms, SearchLabels)
    /\ max_depth \in 0..MaxDepthBound
    /\ \E T \in TermSets : family = [NoFamily EXCEPT !.so_terms = T]
    /\ pc = "ready"
    /\ result = NoResult
    /\ raised = "none"
    /\ root = ""
    /\ found = {}
    /\ examined = {}
    /\ depth = 0
    /\ stack = <<>>
    /\ raw = RawNone
    /\ consulted = <<>>

\* search(root) for one cross-referenced term
Search ==
    /\ pc = "ready"
    /\ \E t \in family.so_terms :
         /\ root' = t
         /\ found' = search(t)
         /\ examined' = searchCallsFrom(t, 0)
    /\ pc' = "searched"
    /\ UNCHANGED <<hardcoded, informative_names, mapping, assignments, graph,
                   max_depth, family, result, raised, depth, stack, raw, consulted>>

\* SoTermSearch.__call__(family)
CallSearch ==
    /\ pc = "ready"
    /\ LET r == so_term_search(family)
       IN /\ result' = r
          /\ raised' = r.error
    /\ pc' = "called"
    /\ UNCHANGED <<hardcoded, informative_names, mapping, assignments, graph,
                   max_depth, family, root, found, examined, depth, stack, raw,
                   consulted>>

NextSearch == Search \/ CallSearch

SpecSearch == InitSearch /\ [][NextSearch]_vars

-----------------------------------------------------------------------------
(* Specification of WithFallBacks.__call__ on one family *)

FamilyId == "RF00001"

Names == {"5S ribosomal RNA", "mir-10 microRNA precursor family"}

ManualValues ==
    {RawStr("tRNA"), RawStr("other"), RawStr("misc_RNA"), RawStr("miRNA"),
     RawStr("antisense"), RawStr("bogus"), RawNumber,
     RawSet({"misc_RNA", "other"}), RawSet({"misc_RNA", "other", "tRNA"}),
     RawSet({"miRNA", "tRNA"})}

ManualTables == {<<>>} \cup {FamilyId :> v : v \in ManualValues}

NameTables ==
    {<<>>,
     <<[pattern |-> "ribosomal", rna_type |-> RawStr("rRNA")],
       [pattern |-> "rna", rna_type |-> RawStr("tRNA")]>>,
     <<[pattern |-> "rna", rna_type |-> RawStr("other")],
       [pattern |-> "^mir", rna_type |-> RawStr("miRNA")]>>}

RnaTypeKey == <<"Gene", "rRNA">>

RnaTypeTables ==
    {<<>>, RnaTypeKey :> RawStr("rRNA"), RnaTypeKey :> RawStr("misc_RNA")}

AssignmentTables ==
    {<<>>,
     "SO:1" :> "tRNA",
     "SO:2" :> "other",
     "SO:2" :> "misc_RNA" @@ "SO:3" :> "other",
     "SO:2" :> "tRNA" @@ "SO:3" :> "bogus",
     "SO:3" :> "miRNA"}

FamilyGraphs ==
    {[nodes |-> Terms, edges |-> {<<"SO:1", "SO:2">>, <<"SO:2", "SO:3">>}],
     [nodes |-> Terms, edges |-> {<<"SO:1", "SO:2">>, <<"SO:1", "SO:3">>}],
     [nodes |-> Terms, edges |-> {<<"SO:1", "SO:1">>, <<"SO:1", "SO:2">>,
                                  <<"SO:2", "SO:1">>, <<"SO:2", "SO:3">>}]}

FamilyTermSets == {{}, {"SO:1"}, {"SO:1", MissingTerm}, {"SO:2"}}

Init ==
    /\ hardcoded \in ManualTables
    /\ informative_names \in NameTables
    /\ mapping \in RnaTypeTables
    /\ assignments \in AssignmentTables
    /\ graph \in FamilyGraphs
    /\ max_depth \in 0..MaxDepthBound
    /\ \E n \in Names, T \in FamilyTermSets :
         family = [id |-> FamilyId, name |-> n, so_terms |-> T, rna_type |-> RnaTypeKey]
    /\ pc = "manual"
    /\ result = NoResult
    /\ raised = "none"
    /\ root = ""
    /\ found = {}
    /\ examined = {}
    /\ depth = 0
    /\ stack = <<>>
    /\ raw = RawNone
    /\ consulted = <<>>

Config == <<hardcoded, informative_names, mapping, assignments, graph, max_depth, family>>
SearchVars == <<root, found, examined, depth, stack, raw>>

\* lines 329-332: one operand of the `or` chain is evaluated; an exception
\* leaves __call__, a non-empty result ends the chain, an empty one passes on
\* to the next operand (the last operand's value is the chain's value)
Try(strategy) ==
    /\ pc = strategy
    /\ consulted' = Append(consulted, strategy)
    /\ LET r == Apply(strategy, family)
       IN IF ~r.ok
          THEN /\ raised' = r.error
               /\ pc' = "raised"
               /\ UNCHANGED result
          ELSE /\ result' = r
               /\ pc' = IF Truthy(r) THEN "return" ELSE OrElse(strategy)
               /\ UNCHANGED raised
    /\ UNCHANGED <<Config, SearchVars>>

FromManual == Try("manual")
FromNameStep == Try("name")
FromSoTermsStep == Try("so-term")
FromRnaTypeStep == Try("rna-type")

\* lines 334-337: the search is asked when the chain gave nothing
SoTermSearchStep ==
    /\ pc = "so-search"
    /\ consulted' = Append(consulted, "so-search")
    /\ LET possible == so_term_search(family)
       IN IF ~possible.ok
          THEN /\ raised' = possible.error
               /\ pc' = "raised"
               /\ UNCHANGED result
          ELSE /\ result' = IF AcceptPossible(possible) THEN possible ELSE result
               /\ pc' = "return"
               /\ UNCHANGED raised
    /\ UNCHANGED <<Config, SearchVars>>

\* lines 339-346
Return ==
    /\ pc = "return"
    /\ result' = IF ~Truthy(result) THEN Returned(FallbacksName, {}) ELSE simplify(result)
    /\ pc' = "done"
    /\ UNCHANGED <<Config, SearchVars, raised, consulted>>

Next ==
    \/ FromManual
    \/ FromNameStep
    \/ FromSoTermsStep
    \/ FromRnaTypeStep
    \/ SoTermSearchStep
    \/ Return

Spec == Init /\ [][Next]_vars

-----------------------------------------------------------------------------
(* Specification of InferredRfamType.build followed by simplify *)

LabelPool == {"misc_RNA", "other", "tRNA", "miRNA", "antisense", NoneLabel}

BuildInputs ==
    {RawStr(t) : t \in INSDCTypes \cup {"antisense", "bogus"}}
        \cup {RawSet(S) : S \in SUBSET LabelPool}
        \cup {RawNone, RawNumber}

InitResult ==
    /\ hardcoded = <<>>
    /\ informative_names = <<>>
    /\ mapping = <<>>
    /\ assignments = <<>>
    /\ graph = [nodes |-> {}, edges |-> {}]
    /\ max_depth = 0
    /\ family = NoFamily
    /\ pc = "raw"
    /\ result = NoResult
    /\ raised = "none"
    /\ root = ""
    /\ found = {}
    /\ examined = {}
    /\ depth = 0
    /\ stack = <<>>
    /\ raw \in BuildInputs
    /\ consulted = <<>>

\* InferredRfamType.build(family, name, raw)
Build ==
    /\ pc = "raw"
    /\ LET r == build("manual", raw)
       IN IF r.ok
          THEN /\ result' = r
               /\ pc' = "built"
               /\ UNCHANGED raised
          ELSE /\ raised' = r.error
               /\ pc' = "raised"
               /\ UNCHANGED result
    /\ UNCHANGED <<Config, SearchVars, consulted>>

\* WithFallBacks.simplify(result)
Simplify ==
    /\ pc = "built"
    /\ result' = simplify(result)
    /\ pc' = "simplified"
    /\ UNCHANGED <<Config, SearchVars, raised, consulted>>

NextResult == Build \/ Simplify

SpecResult == InitResult /\ [][NextResult]_vars

-----------------------------------------------------------------------------
(* Specification of SoTermSearch.search, one dfs call frame per step *)

\* the recursion of dfs is at most one frame deeper than the depths tried
StackCap == MaxDepthBound + 1

DfsLabels == {"tRNA"}

Frame(term, d) == [term |-> term, depth |-> d, at |-> "start", todo |-> {}, found |-> {}]

InitDfs ==
    /\ hardcoded = <<>>
    /\ informative_names = <<>>
    /\ mapping = <<>>
    /\ graph \in Graphs
    /\ assignments \in PartialFns(Terms, DfsLabels)
    /\ max_depth \in 0..MaxDepthBound
    /\ family = NoFamily
    /\ pc = "loop"
    /\ result = NoResult
    /\ raised = "none"
    /\ root \in Terms \cup {MissingTerm}
    /\ found = {}
    /\ examined = {}
    /\ depth = 0
    /\ stack = <<>>
    /\ raw = RawNone
    /\ consulted = <<>>

DfsFixed == <<hardcoded, informative_names, mapping, assignments, graph, max_depth,
              family, result, raised, root, raw, consulted>>

Top == stack[Len(stack)]
Pop == SubSeq(stack, 1, Len(stack) - 1)

\* lines 278-279 and 282: the next depth of the range is tried, or the range
\* is exhausted and search returns the empty set
SearchLoop ==
    /\ pc = "loop"
    /\ IF depth >= RangeStop
       THEN /\ found' = {}
            /\ pc' = "returned"
            /\ UNCHANGED <<stack, examined>>
       ELSE /\ stack' = <<Frame(root, depth)>>
            /\ examined' = examined \cup {root}
            /\ pc' = "dfs"
            /\ UNCHANGED found
    /\ UNCHANGED <<DfsFixed, depth>>

\* a value returned by the top frame reaches its caller: the found.update of
\* line 273, or lines 279-281 of search
ReturnValue(value) ==
    IF Len(stack) = 1
    THEN /\ stack' = <<>>
         /\ IF value # {}
            THEN /\ found' = value
                 /\ pc' = "returned"
                 /\ UNCHANGED depth
            ELSE /\ depth' = depth + 1
                 /\ pc' = "loop"
                 /\ UNCHANGED found
    ELSE /\ stack' = [Pop EXCEPT ![Len(stack) - 1].found = @ \cup value]
         /\ UNCHANGED <<pc, depth, found>>

\* lines 263-270 and 275: the tests at the head of dfs
DfsEnter ==
    /\ pc = "dfs"
    /\ Top.at = "start"
    /\ IF NotInGraph(Top.term) THEN ReturnValue({})
       ELSE IF Top.depth = 0 /\ HasIsndc(Top.term) THEN ReturnValue({assignments[Top.term]})
       ELSE IF Top.depth # 0
            THEN /\ stack' = [stack EXCEPT ![Len(stack)].at = "edges",
                                           ![Len(stack)].todo = Children(Top.term)]
                 /\ UNCHANGED <<pc, depth, found>>
       ELSE ReturnValue({})
    /\ UNCHANGED <<DfsFixed, examined>>

\* lines 272-273: the recursive call for one more out-edge
DfsRecurse ==
    /\ pc = "dfs"
    /\ Top.at = "edges"
    /\ Len(stack) < StackCap
    /\ \E child \in Top.todo :
         /\ stack' = Append([stack EXCEPT ![Len(stack)].todo = @ \ {child}],
                            Frame(child, ChildDepth(Top.depth)))
         /\ examined' = examined \cup {child}
    /\ UNCHANGED <<DfsFixed, pc, depth, found>>

\* line 274: the out-edges are exhausted
DfsReturn ==
    /\ pc = "dfs"
    /\ Top.at = "edges"
    /\ Top.todo = {}
    /\ ReturnValue(Top.found)
    /\ UNCHANGED <<DfsFixed, examined>>

NextDfs == SearchLoop \/ DfsEnter \/ DfsRecurse \/ DfsReturn

\* the interpreter runs the call to its end: a step that can be taken is taken
SpecDfs == InitDfs /\ [][NextDfs]_vars /\ WF_vars(NextDfs)

-----------------------------------------------------------------------------
(* Properties of build and simplify *)

Min(S) == CHOOSE x \in S : \A y \in S : x <= y

\* the category the documentation gives a raw label
Canonical(label) ==
    IF label = "antisense" THEN "antisense_RNA"
    ELSE IF label \in INSDCTypes THEN label
    ELSE "other"

\* C3: build raises nothing for a label string; 'antisense' becomes
\* antisense_RNA, a member of the enumeration becomes itself, and any other
\* string becomes other.
C3_UnknownLabelBecomesOther ==
    raw.kind = "str" =>
        /\ raised = "none"
        /\ pc = "built" => result.rna_types = {Canonical(l) : l \in raw.val}

\* the set simplify was given
Given == {IF l = "antisense" THEN "antisense_RNA" ELSE l : l \in raw.val \ {NoneLabel}}

\* C4: on a non-empty set S, misc_RNA is dropped first when S has more than
\* one member, then other when more than one member is left; the output is a
\* non-empty subset of S, and an output of more than one member holds neither
\* misc_RNA nor other.
C4_CleanupOrdering ==
    (pc = "simplified" /\ Given # {}) =>
        LET S == Given
            a == IF Cardinality(S) > 1 /\ "misc_RNA" \in S THEN S \ {"misc_RNA"} ELSE S
            b == IF Cardinality(a) > 1 /\ "other" \in a THEN a \ {"other"} ELSE a
            out == result.rna_types
        IN /\ out = b
           /\ out # {}
           /\ out \subseteq S
           /\ Cardinality(out) > 1 => ("misc_RNA" \notin out /\ "other" \notin out)
           /\ S = {"misc_RNA", "other", "tRNA"} => out = {"tRNA"}
           /\ S = {"misc_RNA", "other"} => out = {"other"}

\* {misc_RNA, other} was cleaned to {other}
C4_Witness ==
    /\ pc = "simplified"
    /\ raw = RawSet({"misc_RNA", "other"})
    /\ result.rna_types = {"other"}

-----------------------------------------------------------------------------
(* Properties of WithFallBacks.__call__ *)

Range(seq) == {seq[i] : i \in 1..Len(seq)}

\* the documented gate: non-empty and neither exactly {other} nor {misc_RNA}
Acceptable(res) == Truthy(res) /\ res.rna_types \notin {{"other"}, {"misc_RNA"}}

\* C1: a result of exactly {other} or exactly {misc_RNA} never ends the
\* chain, so the value infer returns is never one of the two.
C1_AcceptabilityGate ==
    pc = "done" => result.rna_types \notin {{"other"}, {"misc_RNA"}}

C5_SentinelRewrite ==
    pc = "done" =>
        /\ result.rna_types # {"miRNA"}
        /\ Get(hardcoded, family.id) = RawStr("miRNA") => result.rna_types = {"precursor_RNA"}
        /\ Get(hardcoded, family.id) = RawSet({"miRNA", "tRNA"})
              => result.rna_types = {"miRNA", "tRNA"}

\* C8: when no strategy, the search included, gives an acceptable result,
\* infer returns the method "ALL" and the empty set.
C8_Exhaustion ==
    (/\ pc = "done"
     /\ \A st \in {"manual", "name", "so-term", "rna-type", "so-search"} :
            ~Acceptable(simplify(Apply(st, family))))
        => (result.method = "ALL" /\ result.rna_types = {})

-----------------------------------------------------------------------------
(* Properties of the ontology search *)

\* the nodes reached from term by following exactly d outgoing edges
RECURSIVE ReachAt(_, _)
ReachAt(term, d) ==
    IF d = 0 THEN {term}
    ELSE {e[2] : e \in {x \in graph.edges : x[1] \in ReachAt(term, d - 1)}}

\* the labels carried by those nodes
LabelsAt(term, d) == {assignments[n] : n \in ReachAt(term, d) \cap DOMAIN assignments}

\* the depths up to `last` at which some node reached from term carries a label
LabelDepths(term, last) == {d \in 0..last : LabelsAt(term, d) # {}}

\* the labels of the nearest labelled layer among the depths 0..last
Nearest(term, last) ==
    IF LabelDepths(term, last) = {} THEN {}
    ELSE LabelsAt(term, Min(LabelDepths(term, last)))

\* C6: a term that carries a label returns exactly that label and no child
\* is examined; any other term returns exactly the labels of the nodes of the
\* nearest labelled layer (within the max_depth edges the search is
\* configured for), and nothing from deeper layers.
C6_DepthPreference ==
    (pc = "searched" /\ root \in graph.nodes) =>
        /\ HasIsndc(root) => (found = {assignments[root]} /\ examined = {root})
        /\ (~HasIsndc(root) /\ LabelDepths(root, max_depth) # {})
              => found = LabelsAt(root, Min(LabelDepths(root, max_depth)))

\* C7 as stated: the depths 0 .. max_depth are tried, so a term whose nearest
\* labelled node lies exactly max_depth edges away returns its label, and only
\* a term with no label within max_depth edges returns the empty set.
C7_DepthBoundInclusive ==
    (pc = "searched" /\ root \in graph.nodes) => found = Nearest(root, max_depth)

\* the normalisation build applies to a set of known labels
Normalized(labels) == {IF l = "antisense" THEN "antisense_RNA" ELSE l : l \in labels}

\* C9: the label set of the search strategy is the (normalised) union of the
\* search results of the cross-referenced terms that are nodes of the graph;
\* a term that is no node adds nothing and raises nothing, the only error
\* being the one build raises for a label outside the enumeration.
C9_BrokenCrossReferences ==
    pc = "called" =>
        LET present == family.so_terms \cap graph.nodes
            labels == UNION {Nearest(t, max_depth - 1) : t \in present}
        IN /\ \A t \in family.so_terms \ graph.nodes : search(t) = {}
           /\ raised \in {"none", "AttributeError"}
           /\ raised = "none" <=> Normalized(labels) \subseteq INSDCTypes
           /\ raised = "none" => (result.ok /\ result.rna_types = Normalized(labels))

\* a record with a broken cross-reference whose other term still gave a label
C9_Witness ==
    /\ pc = "called"
    /\ MissingTerm \in family.so_terms
    /\ raised = "none"
    /\ result.rna_types = {"antisense_RNA"}

\* C10: search returns on every graph, cyclic ones included: the frames of
\* dfs carry strictly decreasing depths down to 0 at most, never more than
\* max_depth of them, the loop never passes max_depth, and the call ends.
C10_SearchTerminates ==
    /\ [](/\ Len(stack) <= max_depth
          /\ depth <= max_depth
          /\ \A i \in 1..Len(stack) : stack[i].depth = depth - (i - 1) /\ stack[i].depth >= 0)
    /\ <>(pc = "returned")

\* a search on a cycle that tried every depth and returned
C10_Witness ==
    /\ pc = "returned"
    /\ root = "SO:1"
    /\ {<<"SO:1", "SO:2">>, <<"SO:2", "SO:1">>, <<"SO:1", "SO:1">>} \subseteq graph.edges
    /\ assignments = <<>>
    /\ max_depth = MaxDepthBound
    /\ depth = max_depth

\* the step-by-step search returns what the recursive definition returns
DfsAgrees == pc = "returned" => (found = search(root) /\ examined = searchCallsFrom(root, 0))

====
